---- MODULE Spec2Model ----
(***************************************************************************)
(* LyricsDownloader: the metadata-resolution and lyrics-matching pipeline  *)
(* of the four scripts                                                     *)
(*   get_song_metadata_and_create_lrc.py   (sidecar driver, "lrc")         *)
(*   python/embed.py                       (embed driver,   "embed")       *)
(*   python/get_song_metadata.py           (embed, no counters, "gsm")     *)
(*   python/add_synced_lyrics.py           (embed, first draft, "asl")     *)
(*                                                                         *)
(* Python strings are sequences of one-character strings.  Python's None   *)
(* is the one-element sequence <<"None">>, which no string can equal.      *)
(* A path is the file's name inside the walked directory.                  *)
(***************************************************************************)
EXTENDS Integers, Sequences, FiniteSets, TLC

VARIABLES
    call,       \* a direct call of one function: its inputs and its result
    variant,    \* which script runs
    tree,       \* the file names os.walk yields, in walk order
    audio,      \* the audio files on disk, by path
    lrc,        \* the sidecar files on disk: path -> content
    idx,        \* how many files of the walk main has taken
    pc,         \* where main stands
    scanned_files_count,
    lyrics_written_files_count,
    meta,       \* title, artist, album, duration of the file in hand
    lyrics,     \* the lyrics fetched for the file in hand
    journal     \* per file taken: what main did with it

walkVars == <<variant, tree, idx, pc, scanned_files_count,
              lyrics_written_files_count, meta, lyrics, journal>>
diskVars == <<audio, lrc>>
vars == <<call, walkVars, diskVars>>

-----------------------------------------------------------------------------
(* Bounds of the model                                                     *)

MaxNameLen == 5     \* longest base name given to get_song_metadata
MaxResults == 2     \* longest result list the lyrics index answers with
MaxFiles == 2       \* most files in the walked tree

-----------------------------------------------------------------------------
(* Python values                                                           *)

None == <<"None">>

\* no function has been called on its own
NoCall == [fn |-> "none"]

\* bool(x) for x a str or None
Truthy(x) == x # None /\ x # <<>>

\* x or y
PyOr(x, y) == IF Truthy(x) THEN x ELSE y

Max(S) == CHOOSE m \in S : \A n \in S : n <= m
Min(S) == CHOOSE m \in S : \A n \in S : m <= n

\* the sequences over S of length at most n
RECURSIVE SeqsUpTo(_, _)
SeqsUpTo(S, n) ==
    IF n = 0 THEN {<<>>}
    ELSE LET shorter == SeqsUpTo(S, n - 1)
         IN  shorter \cup { Append(s, c) : s \in { t \in shorter : Len(t) = n - 1 }, c \in S }

\* the 1-based index of the first occurrence of sub in s, 0 when there is none
\* (str.find, `sub in s`, the split point of str.split(sub, 1))
Find(s, sub) ==
    LET hits == { i \in 1..(Len(s) - Len(sub) + 1) :
                      SubSeq(s, i, i + Len(sub) - 1) = sub }
    IN  IF hits = {} THEN 0 ELSE Min(hits)

Contains(s, sub) == Find(s, sub) # 0

\* str.endswith
EndsWith(s, suf) ==
    /\ Len(suf) <= Len(s)
    /\ SubSeq(s, Len(s) - Len(suf) + 1, Len(s)) = suf

\* str.strip(): leading and trailing blanks removed
Strip(s) ==
    LET solid == { i \in 1..Len(s) : s[i] # " " }
    IN  IF solid = {} THEN <<>> ELSE SubSeq(s, Min(solid), Max(solid))

LowerChar(c) ==
    CASE c = "M" -> "m"
      [] c = "P" -> "p"
      [] OTHER   -> c

\* str.lower()
Lower(s) == [i \in 1..Len(s) |-> LowerChar(s[i])]

\* os.path.splitext: <<root, ext>>; the extension starts at the last dot,
\* unless only dots come before it
SplitExt(p) ==
    LET dots == { i \in 1..Len(p) : p[i] = "." }
    IN  IF dots = {} THEN <<p, <<>>>>
        ELSE LET d == Max(dots)
             IN  IF \E j \in 1..(d - 1) : p[j] # "."
                 THEN <<SubSeq(p, 1, d - 1), SubSeq(p, d, Len(p))>>
                 ELSE <<p, <<>>>>

\* a split at the last " - " instead (name.rsplit(" - ", 1))
SplitLast(name) ==
    LET hits == { i \in 1..(Len(name) - 2) : SubSeq(name, i, i + 2) = <<" ", "-", " ">> }
        i    == Max(hits)
    IN  <<SubSeq(name, 1, i - 1), SubSeq(name, i + 3, Len(name))>>

\* name.split(" - ", 1) for a name that contains " - "
SplitFirst(name) ==
    LET i == Find(name, <<" ", "-", " ">>)
    IN  <<SubSeq(name, 1, i - 1), SubSeq(name, i + 3, Len(name))>>

-----------------------------------------------------------------------------
(* Audio files and their tags                                              *)

EXT_MP3  == <<".", "m", "p", "3">>
EXT_FLAC == <<".", "f", "l", "a", "c">>
EXT_M4A  == <<".", "m", "4", "a">>
EXT_OGG  == <<".", "o", "g", "g">>
EXT_AIFF == <<".", "a", "i", "f", "f">>
EXT_WAV  == <<".", "w", "a", "v">>
EXT_DSF  == <<".", "d", "s", "f">>
EXT_DSD  == <<".", "d", "s", "d">>

SUPPORTED_EXTENSIONS == <<EXT_MP3, EXT_FLAC>>

\* the extensions whose branch of get_song_metadata reads title/artist/album
TagReadExts == {EXT_MP3, EXT_FLAC, EXT_M4A, EXT_OGG, EXT_AIFF, EXT_DSF}

NoMeta == [title |-> None, artist |-> None, album |-> None, duration |-> None]

\* The try block of get_song_metadata: what the mutagen reader of the file's
\* extension yields.  f.corrupt: the reader raises.  A raise leaves the four
\* locals at None (the reader is the first statement of every branch).
\* raised: whether the block raised.
ReadTags(f, ext) ==
    IF ext \in TagReadExts THEN
        IF f.corrupt THEN [meta |-> NoMeta, raised |-> TRUE]
        ELSE [meta |-> [title |-> f.title, artist |-> f.artist,
                        album |-> f.album, duration |-> f.duration],
              raised |-> FALSE]
    ELSE IF ext = EXT_WAV THEN
        IF f.corrupt THEN [meta |-> NoMeta, raised |-> TRUE]
        ELSE [meta |-> [NoMeta EXCEPT !.duration = f.duration], raised |-> FALSE]
    ELSE [meta |-> NoMeta, raised |-> FALSE]

\* The filename fallback of get_song_metadata
FilenameFallback(path, m) ==
    IF ~Truthy(m.title) \/ ~Truthy(m.artist) THEN
        LET name == SplitExt(path)[1]
        IN  IF Contains(name, <<" ", "-", " ">>) THEN
                LET parts == SplitFirst(name)
                IN  [m EXCEPT !.artist = PyOr(m.artist, Strip(parts[1])),
                              !.title  = PyOr(m.title, Strip(parts[2]))]
            ELSE [m EXCEPT !.title = PyOr(m.title, name)]
    ELSE m

\* get_song_metadata of get_song_metadata_and_create_lrc.py and embed.py
\* (the two are the same text)
get_song_metadata(f) ==
    LET ext == Lower(SplitExt(f.path)[2])
    IN  FilenameFallback(f.path, ReadTags(f, ext).meta)

-----------------------------------------------------------------------------
(* The lyrics client                                                       *)

RECURSIVE Quote(_)
\* urllib.parse.quote: a blank becomes %20; letters, digits and "-" are kept
Quote(s) ==
    IF s = <<>> THEN <<>>
    ELSE (IF Head(s) = " " THEN <<"%", "2", "0">> ELSE <<Head(s)>>) \o Quote(Tail(s))

\* /api/search?track_name=<title>&artist_name=<artist>
SearchUrl(title, artist) ==
    [mode |-> "track_artist", track_name |-> Quote(title), artist_name |-> Quote(artist)]

\* /api/search?q=<title artist>
FallbackUrl(title, artist) ==
    [mode |-> "q", q |-> Quote(title \o <<" ">> \o artist)]

\* What requests.get meets: a network error (it raises), or a response with a
\* status code and a JSON list of results, of which the code reads only each
\* entry's syncedLyrics (None: the key is absent or null).
LyricsTexts == {<<"x">>, <<"u", "r", "l">>}

SyncedValues == {None, <<>>} \cup LyricsTexts

Responses ==
    {[kind |-> "neterr"], [kind |-> "http", status |-> 404, results |-> <<>>]}
    \cup { [kind |-> "http", status |-> 200, results |-> rs] :
               rs \in SeqsUpTo(SyncedValues, MaxResults) }

\* one line of the log of requests a call made
Sent(url, r) ==
    [url |-> url,
     status |-> IF r.kind = "neterr" THEN 0 ELSE r.status,
     neterr |-> r.kind = "neterr",
     count |-> IF r.kind = "neterr" THEN 0 ELSE Len(r.results)]

Returned(value, log) == [raised |-> FALSE, value |-> value, requests |-> log]
Raised(log)          == [raised |-> TRUE, value |-> None, requests |-> log]

\* the first result that carries synced lyrics instead of results[0]
AnySyncedLyrics(results, log) ==
    LET carrying == { k \in 1..Len(results) : Truthy(results[k]) }
    IN  IF carrying = {} THEN Returned(None, log)
        ELSE Returned(results[Min(carrying)], log)

\* results[0].get("syncedLyrics"), then `if not lyrics_text: return None`
FirstSyncedLyrics(results, log) ==
    LET lyrics_text == results[1]
    IN  IF ~Truthy(lyrics_text) THEN Returned(None, log) ELSE Returned(lyrics_text, log)

\* fetch_synced_lyrics of get_song_metadata_and_create_lrc.py, embed.py and
\* get_song_metadata.py (the same text).  r1 and r2 are what the transport
\* answers to the primary and to the fallback request.
FetchWithFallback(title, artist, r1, r2) ==
    LET log1 == <<Sent(SearchUrl(title, artist), r1)>>
        log2 == Append(log1, Sent(FallbackUrl(title, artist), r2))
    IN  IF r1.kind = "neterr" THEN Raised(log1)
        ELSE IF r1.status # 200 THEN Returned(None, log1)
        ELSE IF r1.results # <<>> THEN FirstSyncedLyrics(r1.results, log1)
        ELSE IF r2.kind = "neterr" THEN Raised(log2)
        ELSE IF r2.status # 200 THEN Returned(None, log2)
        ELSE IF r2.results = <<>> THEN Returned(None, log2)
        ELSE FirstSyncedLyrics(r2.results, log2)

\* fetch_synced_lyrics of add_synced_lyrics.py: no fallback query; it takes
\* syncedLyrics for an object with a "url" key.  The index answers with the
\* lyrics text itself, so `"url" not in synced_lyrics` is a substring test and
\* synced_lyrics["url"] on a str raises TypeError.
FetchAsl(title, artist, r1) ==
    LET log1 == <<Sent(SearchUrl(title, artist), r1)>>
    IN  IF r1.kind = "neterr" THEN Raised(log1)
        ELSE IF r1.status # 200 THEN Returned(None, log1)
        ELSE IF r1.results = <<>> THEN Returned(None, log1)
        ELSE LET synced_lyrics == r1.results[1]
             IN  IF ~Truthy(synced_lyrics) \/ ~Contains(synced_lyrics, <<"u", "r", "l">>)
                 THEN Returned(None, log1)
                 ELSE Raised(log1)

fetch_synced_lyrics(v, title, artist, r1, r2) ==
    IF v = "asl" THEN FetchAsl(title, artist, r1)
    ELSE FetchWithFallback(title, artist, r1, r2)

\* whether the transport is asked a second time after the answer r1
AsksAgain(v, r1) ==
    v # "asl" /\ r1.kind = "http" /\ r1.status = 200 /\ r1.results = <<>>

NoResponse == [kind |-> "unasked"]

-----------------------------------------------------------------------------
(* The output writers                                                      *)

EXT_LRC == <<".", "l", "r", "c">>

\* the unsynchronized-lyrics frame add_synced_lyrics.py and
\* get_song_metadata.py build: USLT(encoding=3, lang='eng', desc='', text=lyrics)
UsltFrame(text) == [lang |-> "eng", desc |-> "", text |-> text]

\* ID3.add(frame): the frame takes the place of the frame of its own key
\* (description and language) only
AddUslt(frames, text) ==
    { fr \in frames : fr.lang # "eng" \/ fr.desc # "" } \cup {UsltFrame(text)}

\* audio.tags.setall("USLT", [frame]): every USLT frame goes, the one is set
SetAllUslt(frames, text) == {UsltFrame(text)}

\* open(lrc_path, "a") instead of "w"
AppendLrc(old, text) == old \o text

\* open(lrc_path, "w") ... f.write(lyrics_text): what the file then holds
OverwriteLrc(old, text) == text

LrcPath(song_path) == SplitExt(song_path)[1] \o EXT_LRC

Put(map, key, value) ==
    [k \in DOMAIN map \cup {key} |-> IF k = key THEN value ELSE map[k]]

Content(map, key) == IF key \in DOMAIN map THEN map[key] ELSE <<>>

IoOutcomes == {"ok", "open_fails", "write_fails"}

\* write_lrc_file.  io: "open_fails": open() raises and the disk is as before;
\* "write_fails": open() has truncated the file when write() raises.
write_lrc_file(disk, song_path, lyrics_text, io) ==
    LET lrc_path == LrcPath(song_path)
    IN  CASE io = "open_fails"  -> [lrc |-> disk, raised |-> TRUE, report |-> "none"]
          [] io = "write_fails" -> [lrc |-> Put(disk, lrc_path, <<>>), raised |-> TRUE,
                                    report |-> "none"]
          [] OTHER -> [lrc |-> Put(disk, lrc_path,
                                   OverwriteLrc(Content(disk, lrc_path), lyrics_text)),
                       raised |-> FALSE, report |-> "saved"]

\* embed_lyrics of embed.py.  The module imports neither USLT nor
\* ID3NoHeaderError: in the mp3 branch either add_tags() raises (the file has
\* tags) and evaluating `except ID3NoHeaderError` raises NameError, or USLT(...)
\* raises NameError; the outer `except Exception` reports it and the file is
\* never saved.  io # "ok": audio.save() raises.
EmbedLyricsEmbed(f, lyrics_text, io) ==
    LET ext == Lower(SplitExt(f.path)[2])
    IN  IF ext = EXT_MP3 THEN [file |-> f, raised |-> FALSE, report |-> "failed"]
        ELSE IF ext = EXT_FLAC THEN
            IF f.corrupt \/ io # "ok"
            THEN [file |-> f, raised |-> FALSE, report |-> "failed"]
            ELSE [file |-> [f EXCEPT !.LYRICS = lyrics_text], raised |-> FALSE,
                  report |-> "embedded"]
        ELSE [file |-> f, raised |-> FALSE, report |-> "unsupported"]

\* embed_lyrics of get_song_metadata.py and add_synced_lyrics.py (the same
\* text): no try, no else branch.
EmbedLyricsGsm(f, lyrics_text) ==
    LET done(g) == [file |-> g, raised |-> FALSE, report |-> "none"]
    IN  IF EndsWith(f.path, EXT_MP3) THEN
            done([f EXCEPT !.id3 = TRUE, !.uslt = SetAllUslt(f.uslt, lyrics_text)])
        ELSE IF EndsWith(f.path, EXT_FLAC) THEN
            done([f EXCEPT !.LYRICS = lyrics_text])
        ELSE done(f)

\* the same with the reader or audio.save() raising: nothing is persisted
EmbedLyricsGsmIo(f, lyrics_text, io) ==
    IF (EndsWith(f.path, EXT_MP3) \/ EndsWith(f.path, EXT_FLAC)) /\ (f.corrupt \/ io # "ok")
    THEN [file |-> f, raised |-> TRUE, report |-> "none"]
    ELSE EmbedLyricsGsm(f, lyrics_text)

embed_lyrics(v, f, lyrics_text, io) ==
    IF v = "embed" THEN EmbedLyricsEmbed(f, lyrics_text, io)
    ELSE EmbedLyricsGsmIo(f, lyrics_text, io)

-----------------------------------------------------------------------------
(* main of get_song_metadata_and_create_lrc.py ("lrc") and embed.py        *)
(* ("embed")                                                               *)

\* any(file.endswith(ext) for ext in SUPPORTED_EXTENSIONS)
Supported(file) ==
    \E k \in 1..Len(SUPPORTED_EXTENSIONS) : EndsWith(file, SUPPORTED_EXTENSIONS[k])

\* `if not title` alone
MissingTitle(m) == ~Truthy(m.title)

\* `if not title or not artist`
MissingMetadata(m) == ~Truthy(m.title) \/ ~Truthy(m.artist)

DriverVariants == {"lrc", "embed"}

DriverPaths ==
    { <<"a", " ", "-", " ", "b">> \o EXT_MP3, <<"b">> \o EXT_FLAC,
      <<"a", " ", "-", " ", "b">> \o EXT_WAV }

Untagged(path) ==
    [path |-> path, corrupt |-> FALSE, title |-> None, artist |-> None, album |-> None,
     duration |-> 1, id3 |-> FALSE, uslt |-> {}, LYRICS |-> None]

Tagged(path) ==
    [Untagged(path) EXCEPT !.title = <<"t">>, !.artist = <<"r">>, !.id3 = TRUE]

Corrupt(path) == [Untagged(path) EXCEPT !.corrupt = TRUE]

DriverFiles == UNION { {Untagged(p), Tagged(p), Corrupt(p)} : p \in DriverPaths }

\* the trees: at most MaxFiles files, no path twice
Trees ==
    { t \in SeqsUpTo(DriverFiles, MaxFiles) :
        \A i, j \in 1..Len(t) : i # j => t[i].path # t[j].path }

Idle ==
    /\ variant = "none" /\ tree = <<>> /\ idx = 0 /\ pc = "idle"
    /\ scanned_files_count = 0 /\ lyrics_written_files_count = 0
    /\ meta = NoMeta /\ lyrics = None /\ journal = <<>>

Init ==
    /\ call = NoCall
    /\ variant \in DriverVariants
    /\ \E t \in Trees :
        /\ tree = [i \in 1..Len(t) |-> t[i].path]
        /\ audio = [p \in { t[i].path : i \in 1..Len(t) } |->
                        (CHOOSE f \in { t[i] : i \in 1..Len(t) } : f.path = p)]
    /\ lrc = <<>>
    /\ idx = 0
    /\ pc = "walk"
    /\ scanned_files_count = 0
    /\ lyrics_written_files_count = 0
    /\ meta = NoMeta
    /\ lyrics = None
    /\ journal = <<>>

Entry(path, matched) ==
    [path |-> path, matched |-> matched, title |-> None, artist |-> None,
     requests |-> 0, neterr |-> FALSE, outcome |-> IF matched THEN "Discovered" ELSE "NotMatched",
     persisted |-> FALSE, report |-> "none"]

\* for file in files: the extension filter and scanned_files_count += 1
Walk ==
    /\ pc = "walk"
    /\ idx < Len(tree)
    /\ LET file == tree[idx + 1]
       IN  /\ idx' = idx + 1
           /\ journal' = Append(journal, Entry(file, Supported(file)))
           /\ IF Supported(file)
              THEN /\ scanned_files_count' = scanned_files_count + 1
                   /\ pc' = "resolve"
              ELSE /\ scanned_files_count' = scanned_files_count
                   /\ pc' = "walk"
    /\ UNCHANGED <<call, variant, tree, lyrics_written_files_count, meta, lyrics, diskVars>>

\* get_song_metadata(full_path) and the missing-metadata skip
Resolve ==
    /\ pc = "resolve"
    /\ LET m == get_song_metadata(audio[tree[idx]])
       IN  /\ meta' = m
           /\ IF MissingMetadata(m)
              THEN /\ journal' = [journal EXCEPT ![idx].title = m.title,
                                                 ![idx].artist = m.artist,
                                                 ![idx].outcome = "Skipped"]
                   /\ pc' = "walk"
              ELSE /\ journal' = [journal EXCEPT ![idx].title = m.title,
                                                 ![idx].artist = m.artist]
                   /\ pc' = "fetch"
    /\ UNCHANGED <<call, variant, tree, idx, scanned_files_count,
                   lyrics_written_files_count, lyrics, diskVars>>

\* lyrics = fetch_synced_lyrics(title, artist, album, duration); `if lyrics`
Fetch ==
    /\ pc = "fetch"
    /\ \E r1 \in Responses :
         \E r2 \in (IF AsksAgain(variant, r1) THEN Responses ELSE {NoResponse}) :
            LET out == fetch_synced_lyrics(variant, meta.title, meta.artist, r1, r2)
                seen == [journal EXCEPT
                            ![idx].requests = Len(out.requests),
                            ![idx].neterr = \E k \in 1..Len(out.requests) :
                                                out.requests[k].neterr]
            IN  IF out.raised
                THEN /\ journal' = [seen EXCEPT ![idx].outcome = "Failed"]
                     /\ pc' = "crashed"
                     /\ lyrics' = lyrics
                ELSE IF Truthy(out.value)
                THEN /\ journal' = [seen EXCEPT ![idx].outcome = "LyricsFetched"]
                     /\ pc' = "write"
                     /\ lyrics' = out.value
                ELSE /\ journal' = [seen EXCEPT ![idx].outcome = "NoLyricsFound"]
                     /\ pc' = "walk"
                     /\ lyrics' = out.value
    /\ UNCHANGED <<call, variant, tree, idx, scanned_files_count,
                   lyrics_written_files_count, meta, diskVars>>

\* lrc: write_lrc_file(full_path, lyrics); lyrics_written_files_count += 1
WriteSidecar ==
    /\ pc = "write"
    /\ variant = "lrc"
    /\ \E io \in IoOutcomes :
         LET w == write_lrc_file(lrc, tree[idx], lyrics, io)
         IN  /\ lrc' = w.lrc
             /\ IF w.raised
                THEN /\ pc' = "crashed"
                     /\ journal' = [journal EXCEPT ![idx].outcome = "Failed"]
                     /\ lyrics_written_files_count' = lyrics_written_files_count
                ELSE /\ pc' = "walk"
                     /\ journal' = [journal EXCEPT ![idx].outcome = "Written",
                                                   ![idx].persisted = TRUE,
                                                   ![idx].report = w.report]
                     /\ lyrics_written_files_count' = lyrics_written_files_count + 1
    /\ UNCHANGED <<call, variant, tree, idx, scanned_files_count, meta, lyrics, audio>>

\* embed: embed_lyrics(full_path, lyrics); lyrics_written_files_count += 1
WriteEmbed ==
    /\ pc = "write"
    /\ variant = "embed"
    /\ \E io \in {"ok", "write_fails"} :
         LET e == embed_lyrics(variant, audio[tree[idx]], lyrics, io)
         IN  /\ audio' = [audio EXCEPT ![tree[idx]] = e.file]
             /\ pc' = "walk"
             /\ journal' = [journal EXCEPT ![idx].outcome = "Written",
                                           ![idx].persisted = (e.report = "embedded"),
                                           ![idx].report = e.report]
             /\ lyrics_written_files_count' = lyrics_written_files_count + 1
    /\ UNCHANGED <<call, variant, tree, idx, scanned_files_count, meta, lyrics, lrc>>

\* the walk is over: the final summary
Summary ==
    /\ pc = "walk"
    /\ idx = Len(tree)
    /\ pc' = "done"
    /\ UNCHANGED <<call, variant, tree, idx, scanned_files_count,
                   lyrics_written_files_count, meta, lyrics, journal, diskVars>>

Next == Walk \/ Resolve \/ Fetch \/ WriteSidecar \/ WriteEmbed \/ Summary

Spec == Init /\ [][Next]_vars

-----------------------------------------------------------------------------
(* Properties of the two drivers                                           *)

Taken == 1..Len(journal)

Matching == { i \in 1..Len(tree) : Supported(tree[i]) }

\* C1: an exception in a per-file step is caught at file granularity: the run
\* is never ended by it, and a finished run has counted every matching file
\* of the tree as scanned.
C1_FileFailureContained ==
    /\ pc # "crashed"
    /\ pc = "done" => scanned_files_count = Cardinality(Matching)

\* C2: a file whose primary or fallback request met a network error ends as
\* NoLyricsFound with nothing written, and the run goes on.
C2_NetworkErrorIsNoLyrics ==
    \A i \in Taken :
        journal[i].neterr =>
            /\ journal[i].outcome = "NoLyricsFound"
            /\ ~journal[i].persisted
            /\ pc # "crashed"

C4_State ==
    /\ scanned_files_count = Cardinality({ i \in Taken : journal[i].matched })
    /\ lyrics_written_files_count =
            Cardinality({ i \in Taken : journal[i].outcome = "Written" })
    /\ \A i \in Taken :
         LET e == journal[i]
         IN  /\ e.requests > 0 => (Truthy(e.title) /\ Truthy(e.artist))
             /\ (e.outcome \notin {"NotMatched", "Discovered"}
                    /\ (~Truthy(e.title) \/ ~Truthy(e.artist))) =>
                    /\ e.outcome = "Skipped"
                    /\ e.matched
                    /\ e.requests = 0
                    /\ ~e.persisted
                    /\ LrcPath(e.path) \notin DOMAIN lrc
                    /\ audio[e.path].LYRICS = None
                    /\ audio[e.path].uslt = {}

C4_Step ==
    /\ idx' >= idx
    /\ \A i \in Taken :
         journal[i].outcome = "Skipped" => (i <= Len(journal') /\ journal'[i] = journal[i])

\* C4: a request is issued for a file only when its resolved title and artist
\* are both non-empty; a file with an empty title or artist is skipped with no
\* request and no write, counted as scanned and not as written, and main
\* never comes back to it.
C4_LookupOnlyWithIdentity == [][C4_State' /\ C4_Step]_vars

\* an untagged "b.flac" (title "b", no artist) skipped, and a later file fetched
C4_Witness ==
    /\ Len(journal) = 2
    /\ journal[1].outcome = "Skipped"
    /\ journal[1].title = <<"b">>
    /\ journal[1].artist = None
    /\ journal[1].requests = 0
    /\ journal[2].requests = 2
    /\ scanned_files_count = 2
    /\ lyrics_written_files_count = 1

C6_State ==
    /\ lyrics_written_files_count = Cardinality({ i \in Taken : journal[i].persisted })
    /\ lyrics_written_files_count <= scanned_files_count

\* C6: the written counter is the number of files whose artifact was written
\* successfully (a failed or unsupported write counts as scanned only); the
\* two counters never decrease and written <= scanned.
C6_WrittenCountsRealWrites ==
    [][/\ C6_State'
       /\ scanned_files_count' >= scanned_files_count
       /\ lyrics_written_files_count' >= lyrics_written_files_count]_vars

\* C10: a .wav file of the tree is counted as scanned, gets title and artist
\* from its name alone, and is skipped as "missing metadata" when the name
\* does not give both.
C10_WavIsWalked ==
    \A i \in Taken :
        EndsWith(journal[i].path, EXT_WAV) =>
            /\ journal[i].matched
            /\ (journal[i].outcome = "Skipped") <=>
                    (journal[i].outcome # "Discovered"
                        /\ (~Truthy(journal[i].title) \/ ~Truthy(journal[i].artist)))

-----------------------------------------------------------------------------
(* get_song_metadata called on its own                                     *)

NameChars == {"a", " ", "-"}

ResolveExts == {EXT_MP3, <<".", "M", "P", "3">>, EXT_WAV, EXT_DSD, <<>>}

TagValues == {None, <<>>, <<"t">>}

ResolveFiles ==
    { [path |-> base \o ext, corrupt |-> c, title |-> t, artist |-> a,
       album |-> l, duration |-> 1] :
        base \in SeqsUpTo(NameChars, MaxNameLen), ext \in ResolveExts,
        c \in BOOLEAN, t \in TagValues, a \in {None, <<>>, <<"r">>},
        l \in {None, <<"l">>} }

\* the call is made once, on any file of ResolveFiles
InitResolve ==
    /\ \E f \in ResolveFiles :
         call = [fn |-> "get_song_metadata", file |-> f, done |-> FALSE]
    /\ Idle
    /\ audio = <<>>
    /\ lrc = <<>>

CallGetSongMetadata ==
    /\ call.fn = "get_song_metadata"
    /\ ~call.done
    /\ call' = [fn |-> "get_song_metadata", file |-> call.file, done |-> TRUE,
                result |-> get_song_metadata(call.file)]
    /\ UNCHANGED <<walkVars, diskVars>>

NextResolve == CallGetSongMetadata

SpecResolve == InitResolve /\ [][NextResolve]_vars

-----------------------------------------------------------------------------
(* C5                                                                      *)

\* v is c without its leading and trailing blanks
IsTrimOf(v, c) ==
    \/ v = <<>> /\ \A k \in 1..Len(c) : c[k] = " "
    \/ /\ v # <<>>
       /\ v[1] # " "
       /\ v[Len(v)] # " "
       /\ \E lead \in 0..(Len(c) - Len(v)) :
            /\ SubSeq(c, lead + 1, lead + Len(v)) = v
            /\ \A k \in (1..lead) \cup ((lead + Len(v) + 1)..Len(c)) : c[k] = " "

SepAt(name, i) ==
    /\ i + 2 <= Len(name)
    /\ name[i] = " " /\ name[i + 1] = "-" /\ name[i + 2] = " "

FirstSepAt(name, i) == SepAt(name, i) /\ \A j \in 1..(i - 1) : ~SepAt(name, j)

HasSep(name) == \E i \in 1..Len(name) : SepAt(name, i)

\* C5: get_song_metadata returns a non-empty title or artist tag unchanged; a
\* still-empty field is filled from the base name without extension: from the
\* part after (title) or before (artist) the FIRST " - ", blanks trimmed, and
\* without " - " the whole base name becomes the title and the artist stays
\* empty.  With both tags present the result is the tags; album and duration
\* are always the tags' own.
C5_ResolvePrefersTags ==
    (call.fn = "get_song_metadata" /\ call.done) =>
        LET f    == call.file
            r    == call.result
            tag  == ReadTags(f, Lower(SplitExt(f.path)[2])).meta
            name == SplitExt(f.path)[1]
        IN  /\ Truthy(tag.title) => r.title = tag.title
            /\ Truthy(tag.artist) => r.artist = tag.artist
            /\ (Truthy(tag.title) /\ Truthy(tag.artist)) => r = tag
            /\ r.album = tag.album
            /\ r.duration = tag.duration
            /\ (~Truthy(tag.title) /\ HasSep(name)) =>
                    \E i \in 1..Len(name) :
                        /\ FirstSepAt(name, i)
                        /\ IsTrimOf(r.title, SubSeq(name, i + 3, Len(name)))
            /\ (~Truthy(tag.artist) /\ HasSep(name)) =>
                    \E i \in 1..Len(name) :
                        /\ FirstSepAt(name, i)
                        /\ IsTrimOf(r.artist, SubSeq(name, 1, i - 1))
            /\ (~Truthy(tag.title) /\ ~HasSep(name)) => r.title = name
            /\ (~Truthy(tag.artist) /\ ~HasSep(name)) =>
                    (r.artist = tag.artist /\ ~Truthy(r.artist))

\* an untagged "a - a.mp3" resolved to artist "a", title "a"
C5_Witness ==
    /\ call.fn = "get_song_metadata"
    /\ call.done
    /\ ~call.file.corrupt
    /\ call.file.title = None
    /\ call.file.artist = <<>>
    /\ call.file.path = <<"a", " ", "-", " ", "a">> \o EXT_MP3
    /\ call.result.artist = <<"a">>
    /\ call.result.title = <<"a">>

-----------------------------------------------------------------------------
(* fetch_synced_lyrics called on its own                                   *)

FetchVariants == {"lrc", "embed", "gsm", "asl"}

FetchTitles  == {<<"t">>, <<"a", " ", "b">>}
FetchArtists == {<<"r">>, <<"r", " ", "s">>}

InitFetch ==
    /\ \E v \in FetchVariants, t \in FetchTitles, a \in FetchArtists :
         call = [fn |-> "fetch_synced_lyrics", variant |-> v, title |-> t,
                 artist |-> a, done |-> FALSE]
    /\ Idle
    /\ audio = <<>>
    /\ lrc = <<>>

CallFetchSyncedLyrics ==
    /\ call.fn = "fetch_synced_lyrics"
    /\ ~call.done
    /\ \E r1 \in Responses :
         \E r2 \in (IF AsksAgain(call.variant, r1) THEN Responses ELSE {NoResponse}) :
            call' = [fn |-> "fetch_synced_lyrics", variant |-> call.variant,
                     title |-> call.title, artist |-> call.artist, done |-> TRUE,
                     primary |-> r1, fallback |-> r2,
                     out |-> fetch_synced_lyrics(call.variant, call.title,
                                                 call.artist, r1, r2)]
    /\ UNCHANGED <<walkVars, diskVars>>

NextFetch == CallFetchSyncedLyrics

SpecFetch == InitFetch /\ [][NextFetch]_vars

-----------------------------------------------------------------------------
(* C3                                                                      *)

IsFallback(req) == req.url.mode = "q"

PrimaryEmptySuccess(log) == ~log[1].neterr /\ log[1].status = 200 /\ log[1].count = 0

\* C3: every call of fetch_synced_lyrics issues 1 or 2 requests; the fallback
\* free-text query is issued, once, exactly when the primary query answered
\* 200 with an empty list; a non-200 primary answer returns "no lyrics"
\* without a fallback, and a non-empty primary list issues no second request.
C3_FallbackExactlyOnEmpty ==
    (call.fn = "fetch_synced_lyrics" /\ call.done) =>
        LET log == call.out.requests
            fallbacks == { i \in 1..Len(log) : IsFallback(log[i]) }
        IN  /\ Len(log) \in {1, 2}
            /\ ~IsFallback(log[1])
            /\ Cardinality(fallbacks) <= 1
            /\ (Cardinality(fallbacks) = 1) <=> PrimaryEmptySuccess(log)
            /\ (~log[1].neterr /\ log[1].status # 200) =>
                    (Len(log) = 1 /\ ~call.out.raised /\ call.out.value = None)
            /\ (~log[1].neterr /\ log[1].count > 0) => Len(log) = 1

-----------------------------------------------------------------------------
(* write_lrc_file and embed_lyrics called on their own, any number of      *)
(* times, on one file                                                      *)

EmbedVariants == {"embed", "gsm", "asl"}

WriterPaths == { <<"s">> \o EXT_MP3, <<"s">> \o EXT_FLAC, <<"s">> \o EXT_M4A,
                 <<"s">> \o EXT_AIFF }

OldText == <<"o">>

\* lyrics frames a file may hold before the first call
OldUslt ==
    SUBSET { UsltFrame(OldText), [lang |-> "eng", desc |-> "Lyrics", text |-> OldText],
             [lang |-> "fra", desc |-> "", text |-> OldText] }

WriterFiles ==
    { [Untagged(p) EXCEPT !.corrupt = c] : p \in WriterPaths, c \in BOOLEAN }
    \cup { [Tagged(p) EXCEPT !.uslt = u] :
               p \in { <<"s">> \o EXT_MP3, <<"s">> \o EXT_AIFF }, u \in OldUslt }
    \cup { [Tagged(<<"s">> \o EXT_FLAC) EXCEPT !.LYRICS = OldText] }

InitWriter ==
    /\ call = NoCall
    /\ Idle
    /\ \E f \in WriterFiles :
        /\ audio = [p \in {f.path} |-> f]
        /\ lrc \in {<<>>, [k \in {LrcPath(f.path)} |-> OldText]}

ThePath == CHOOSE p \in DOMAIN audio : TRUE

CallWriteLrcFile ==
    /\ \E lyrics_text \in LyricsTexts, io \in IoOutcomes :
         LET w == write_lrc_file(lrc, ThePath, lyrics_text, io)
         IN  /\ lrc' = w.lrc
             /\ call' = [fn |-> "write_lrc_file", path |-> ThePath,
                         text |-> lyrics_text, io |-> io, raised |-> w.raised,
                         report |-> w.report, before |-> lrc]
    /\ UNCHANGED <<walkVars, audio>>

CallEmbedLyrics ==
    /\ \E v \in EmbedVariants, lyrics_text \in LyricsTexts, io \in {"ok", "write_fails"} :
         LET e == embed_lyrics(v, audio[ThePath], lyrics_text, io)
         IN  /\ audio' = [audio EXCEPT ![ThePath] = e.file]
             /\ call' = [fn |-> "embed_lyrics", variant |-> v, path |-> ThePath,
                         text |-> lyrics_text, io |-> io, raised |-> e.raised,
                         report |-> e.report, before |-> audio[ThePath]]
    /\ UNCHANGED <<walkVars, lrc>>

NextWriter == CallWriteLrcFile \/ CallEmbedLyrics

SpecWriter == InitWriter /\ [][NextWriter]_vars

-----------------------------------------------------------------------------
(* C7, C8, C9                                                              *)

\* the call went through and reported neither a failure nor a skip
EmbedSucceeded ==
    /\ call.fn = "embed_lyrics"
    /\ ~call.raised
    /\ call.report \notin {"failed", "unsupported"}

IsMp3(path) == Lower(SplitExt(path)[2]) = EXT_MP3

HasLyricsField(f, text) ==
    IF Lower(SplitExt(f.path)[2]) = EXT_FLAC THEN f.LYRICS = text
    ELSE \E fr \in f.uslt : fr.text = text

\* C8: in every embed variant, embed_lyrics on a file that is not mp3, aiff or
\* flac leaves the file as it was and reports "unsupported, skipped"; an mp3,
\* aiff or flac file (readable, its save not failing) receives the lyrics.
C8_UnsupportedIsExplicit ==
    call.fn = "embed_lyrics" =>
        LET f   == audio[call.path]
            ext == Lower(SplitExt(call.path)[2])
        IN  IF ext \in {EXT_MP3, EXT_AIFF, EXT_FLAC}
            THEN (~call.before.corrupt /\ call.io = "ok") => HasLyricsField(f, call.text)
            ELSE f = call.before /\ call.report = "unsupported"

\* C9: after a write_lrc_file that returned, the file at <path without
\* extension>.lrc holds exactly the text of that write, whatever it held.
C9_SidecarOverwrites ==
    (call.fn = "write_lrc_file" /\ ~call.raised) =>
        \E k \in 1..Len(call.path) :
            /\ call.path[k] = "."
            /\ \A j \in (k + 1)..Len(call.path) : call.path[j] # "."
            /\ LET sidecar == SubSeq(call.path, 1, k - 1) \o <<".", "l", "r", "c">>
               IN  /\ sidecar \in DOMAIN lrc
                   /\ lrc[sidecar] = call.text
                   /\ \A other \in DOMAIN lrc \ {sidecar} :
                        other \in DOMAIN call.before /\ lrc[other] = call.before[other]

\* a write over a sidecar that held another text
C9_Witness ==
    /\ call.fn = "write_lrc_file"
    /\ ~call.raised
    /\ call.text = <<"x">>
    /\ Content(call.before, LrcPath(call.path)) = <<"u", "r", "l">>
    /\ lrc[LrcPath(call.path)] = <<"x">>

-----------------------------------------------------------------------------
(* C11                                                                     *)

\* the transport answered 200 with at least one result
NonEmptySuccess(r) == r.kind = "http" /\ r.status = 200 /\ r.results # <<>>

EmptySuccess(r) == r.kind = "http" /\ r.status = 200 /\ r.results = <<>>

\* C11: fetch_synced_lyrics (with fallback) reads only the first element of
\* the result list that was non-empty, the primary one, else the fallback one:
\* it returns that element's syncedLyrics when non-empty and "no lyrics" when
\* it is empty or absent, whatever the later elements carry, and issues no
\* further request: one request when the primary list was non-empty, two
\* when the fallback list was used.
C11_OnlyFirstResult ==
    (call.fn = "fetch_synced_lyrics" /\ call.done /\ call.variant # "asl") =>
        LET r1  == call.primary
            r2  == call.fallback
            out == call.out
        IN  /\ NonEmptySuccess(r1) =>
                /\ ~out.raised
                /\ Len(out.requests) = 1
                /\ out.value = (IF r1.results[1] \in {None, <<>>} THEN None
                                ELSE r1.results[1])
            /\ (EmptySuccess(r1) /\ NonEmptySuccess(r2)) =>
                /\ ~out.raised
                /\ Len(out.requests) = 2
                /\ out.value = (IF r2.results[1] \in {None, <<>>} THEN None
                                ELSE r2.results[1])

\* a non-empty primary list whose first element has no synced lyrics and whose
\* second has: "no lyrics" after the one request, the fallback never tried
C11_Witness ==
    /\ call.fn = "fetch_synced_lyrics"
    /\ call.done
    /\ call.variant = "lrc"
    /\ call.primary.kind = "http"
    /\ call.primary.status = 200
    /\ call.primary.results = <<None, <<"x">>>>
    /\ call.fallback = NoResponse
    /\ call.out.value = None
    /\ ~call.out.raised
    /\ Len(call.out.requests) = 1

====
